---- MODULE Spec2Model ----
(***************************************************************************)
(* tweetdeleter: main() validates the flags and hands a date range to      *)
(* TweetDeleter.Run, which logs in once, then walks the range in windows   *)
(* of seven days; for each window it searches, probes for the empty-state  *)
(* marker and, when the marker is absent, deletes the first listed tweet   *)
(* until an iteration saw exactly one tweet listed.                        *)
(*                                                                         *)
(* Dates are day numbers (time.Parse of a DateOnly string yields midnight  *)
(* UTC, and Run adds 7*86400 seconds, so every instant is a whole day).    *)
(* The browser and the site are the environment: every chromedp task       *)
(* either completes, returns an error, or (when it waits for a selector)   *)
(* waits for ever, because the context Run creates carries no deadline.    *)
(***************************************************************************)
EXTENDS Integers, Sequences, FiniteSets, TLC

\* ---------------------------------------------------------------- bounds
MaxStart == 1
MaxDay == 16
MaxTweets == 3
MaxBurst == 10

\* ------------------------------------------------------ program constants
ChunkDays == 7
ProgressEvery == 10

VARIABLES
  username, password, startFlag, endFlag,   \* the command line
  pc, task, blocked, err, fatal,            \* control
  startDate, endDate, since, until,         \* TweetDeleter fields, loop variables
  emptyState, tweets, i,                    \* locals of Run
  acquired, released,                       \* browser resources held and released by Run
  remaining, loaded, marker,                \* the site: result set, view, empty-state marker
  chunks, chunksProcessed, totalDeleted,    \* history
  curSearches, curEnum, curDeleted, ended, k0, exact,
  logins, actions, failedAt, failedIn, progress,
  trace, query, covered,                    \* tasks completed for the window, queries submitted
  loggedDeleted, breakLog,                  \* the counts Run has logged
  maxTweets                                 \* the most tweets a query matches

vars == << username, password, startFlag, endFlag, pc, task, blocked, err, fatal,
           startDate, endDate, since, until, emptyState, tweets, i,
           acquired, released, remaining, loaded, marker, chunks, chunksProcessed, totalDeleted,
           curSearches, curEnum, curDeleted, ended, k0, exact,
           logins, actions, failedAt, failedIn, progress,
           trace, query, covered, loggedDeleted, breakLog, maxTweets >>

cmdVars == << username, password, startFlag, endFlag >>
dateVars == << startDate, endDate >>
resVars == << acquired, released >>
siteVars == << remaining, loaded, marker >>
curVars == << curSearches, curEnum, curDeleted, ended, k0, exact >>
queryVars == << query, covered >>
logVars == << loggedDeleted, breakLog >>

\* ------------------------------------------------------------- the flags
NoDate == 0 - 1

EmptyFlag == [kind |-> "empty", day |-> NoDate]
BadFlag == [kind |-> "bad", day |-> NoDate]

DateFlag(d) == [kind |-> "date", day |-> d]

StartFlags == {EmptyFlag, BadFlag} \cup {DateFlag(d) : d \in 0..MaxStart}
EndFlags == {EmptyFlag, BadFlag} \cup {DateFlag(d) : d \in 0..MaxDay}

\* time.Parse(time.DateOnly, s): an error unless s is a date
Parse(f) == IF f.kind = "date" THEN [ok |-> TRUE, t |-> f.day]
                               ELSE [ok |-> FALSE, t |-> NoDate]

\* only a reversed range is refused
InvalidRangeEq(s, e) == e < s

\* !parsedEnd.After(parsedStart)
InvalidRange(s, e) == ~(e > s)

\* ------------------------------------------------------- chromedp tasks
Task(op, sel) == [op |-> op, sel |-> sel]

login ==
  << Task("Navigate", "flow/login"),
     Task("Click", "text"),
     Task("SendKeys", "text"),
     Task("Sleep", "1s"),
     Task("Click", "next"),
     Task("Click", "password"),
     Task("SendKeys", "password"),
     Task("Click", "LoginButton"),
     Task("WaitVisible", "explore") >>

searchTweets ==
  << Task("Navigate", "explore"),
     Task("Click", "SearchInput"),
     Task("SendKeys", "SearchInput"),
     Task("Click", "live") >>

probe ==
  << Task("Sleep", "3s"),
     Task("Query", "emptyState") >>

deleteTweet ==
  << Task("Click", "More"),
     Task("Sleep", "1s"),
     Task("WaitVisible", "Dropdown"),
     Task("Click", "menuitem"),
     Task("WaitVisible", "confirm"),
     Task("Click", "confirm") >>

\* a task that waits until its selector matches: it never returns when the
\* element never appears, the context having no deadline
Waits(t) == t.op \in {"Click", "SendKeys", "WaitVisible", "Nodes"}

\* ------------------------------------------------------------ the windows
\* the window is not cut at the end of the range
NextUntilNoClip(s, e) == s + ChunkDays

\* the window is a day too long
NextUntilLong(s, e) == IF s + ChunkDays + 1 > e THEN e ELSE s + ChunkDays + 1

\* until = since.Add(7 days); if until.After(endDate) { until = endDate }
NextUntil(s, e) == IF s + ChunkDays > e THEN e ELSE s + ChunkDays

Chunk(s, u) == [since |-> s, until |-> u, outcome |-> "Pending"]

SetOutcome(q, o) == [q EXCEPT ![Len(q)].outcome = o]

\* ------------------------------------------------------------------ Init
NoQuery == [from |-> "", since |-> NoDate, until |-> NoDate]

\* the process before main has read its flags
Fresh ==
  /\ pc = "main"
  /\ task = 0
  /\ blocked = FALSE
  /\ err = "none"
  /\ fatal = "none"
  /\ startDate = NoDate
  /\ endDate = NoDate
  /\ since = NoDate
  /\ until = NoDate
  /\ emptyState = FALSE
  /\ tweets = 0
  /\ i = 0
  /\ acquired = {}
  /\ released = {}
  /\ remaining = 0
  /\ loaded = 0
  /\ marker = FALSE
  /\ chunks = << >>
  /\ chunksProcessed = 0
  /\ totalDeleted = 0
  /\ curSearches = 0
  /\ curEnum = 0
  /\ curDeleted = 0
  /\ ended = FALSE
  /\ k0 = 0
  /\ exact = TRUE
  /\ logins = 0
  /\ actions = 0
  /\ failedAt = NoDate
  /\ failedIn = "none"
  /\ progress = 0
  /\ trace = << >>
  /\ query = NoQuery
  /\ covered = {}
  /\ loggedDeleted = 0
  /\ breakLog = 0

Init ==
  /\ username \in {"", "alice"}
  /\ password \in {"", "secret"}
  /\ startFlag \in StartFlags
  /\ endFlag \in EndFlags
  /\ maxTweets = MaxTweets
  /\ Fresh

\* a range of two windows on an account with many tweets
InitBurst ==
  /\ username = "alice"
  /\ password = "secret"
  /\ startFlag = DateFlag(0)
  /\ endFlag = DateFlag(ChunkDays + 1)
  /\ maxTweets = MaxBurst
  /\ Fresh

\* ------------------------------------------------------------------ main
Fatal(msg) ==
  /\ pc' = "rejected"
  /\ fatal' = msg
  /\ UNCHANGED dateVars

Main ==
  /\ pc = "main"
  /\ IF username = "" THEN Fatal("username")
     ELSE IF password = "" THEN Fatal("password")
     ELSE IF startFlag.kind = "empty" THEN Fatal("start-date")
     ELSE IF endFlag.kind = "empty" THEN Fatal("end-date")
     ELSE IF ~Parse(startFlag).ok THEN Fatal("parse start")
     ELSE IF ~Parse(endFlag).ok THEN Fatal("parse end")
     ELSE IF InvalidRange(Parse(startFlag).t, Parse(endFlag).t) THEN Fatal("range")
     ELSE /\ pc' = "Run"
          /\ startDate' = Parse(startFlag).t
          /\ endDate' = Parse(endFlag).t
          /\ fatal' = fatal
  /\ UNCHANGED << cmdVars, maxTweets, trace, queryVars, logVars, task, blocked, err, since, until, emptyState, tweets, i,
                  resVars, siteVars, chunks, chunksProcessed, totalDeleted, curVars,
                  logins, actions, failedAt, failedIn, progress >>

\* ------------------------------------------------------------------- Run
\* the messages Run wraps an error in; deleteTweet's error is returned as it is
ErrLogin == "error while attempting to login"
ErrSearch == "error while attempting to search for tweets"
ErrProbe == "error checking if search returned tweets"
ErrNodes == "failed to retrieve tweets for deleting"
ErrDelete == "unwrapped"

\* return: the deferred cancel() runs, which is the browser context's cancel
\* and closes the browser; the allocator's cancel is never called
Return(e) ==
  /\ pc' = (IF e = "none" THEN "done" ELSE "failed")
  /\ err' = e
  /\ released' = released \cup {"context", "browser"}
  /\ acquired' = acquired

\* the error is dropped and the task is tried again
OnErrorRetry(e) ==
  /\ failedAt' = actions + 1
  /\ failedIn' = pc
  /\ UNCHANGED << pc, err, resVars >>

\* if err := chromedp.Run(...); err != nil { return ... }
OnError(e) ==
  /\ failedAt' = actions + 1
  /\ failedIn' = pc
  /\ Return(e)

\* a task waiting for an element that never appears
Block ==
  /\ blocked' = TRUE
  /\ UNCHANGED << pc, err, resVars, failedAt, failedIn >>

\* ctx, cancel := chromedp.NewExecAllocator(...); ctx, cancel = chromedp.NewContext(ctx);
\* defer cancel(): the second assignment overwrites the allocator's cancel, so
\* the deferred call is the browser context's
RunStart ==
  /\ pc = "Run"
  /\ acquired' = {"allocator", "context"}
  /\ pc' = "login"
  /\ task' = 1
  /\ UNCHANGED << cmdVars, maxTweets, trace, queryVars, logVars, dateVars, blocked, err, fatal, since, until, emptyState,
                  tweets, i, released, siteVars, chunks, chunksProcessed, totalDeleted,
                  curVars, logins, actions, failedAt, failedIn, progress >>

\* chromedp.Run(ctx, t.login()), one task at a time; the first Run on the
\* context starts the browser
LoginStep ==
  /\ pc = "login" /\ ~blocked
  /\ actions' = actions + 1
  /\ \/ /\ task < Len(login)
        /\ task' = task + 1
        /\ acquired' = acquired \cup {"browser"}
        /\ UNCHANGED << pc, err, released, failedAt, failedIn, blocked, since, until, logins >>
     \/ /\ task = Len(login)
        /\ pc' = "for"
        /\ task' = 0
        /\ since' = startDate
        /\ until' = startDate
        /\ logins' = logins + 1
        /\ UNCHANGED << err, resVars, failedAt, failedIn, blocked >>
     \/ /\ OnError(ErrLogin)
        /\ UNCHANGED << task, blocked, since, until, logins >>
     \/ /\ Waits(login[task])
        /\ Block
        /\ UNCHANGED << task, since, until, logins >>
  /\ UNCHANGED << cmdVars, maxTweets, trace, queryVars, logVars, dateVars, fatal, emptyState, tweets, i, siteVars, chunks,
                  chunksProcessed, totalDeleted, curVars, progress >>

\* the loop stops as soon as less than a whole window is left
BeforeWhole(u, e) == u + ChunkDays <= e

\* until.Before(t.endDate)
Before(u, e) == u < e

\* for since, until := start, start; until.Before(endDate); since = until { ... }
For ==
  /\ pc = "for"
  /\ IF Before(until, endDate)
       THEN /\ until' = NextUntil(since, endDate)
            /\ chunks' = Append(chunks, Chunk(since, until'))
            /\ pc' = "search"
            /\ task' = 1
            /\ emptyState' = FALSE
            /\ curSearches' = 0
            /\ curEnum' = 0
            /\ curDeleted' = 0
            /\ ended' = FALSE
            /\ k0' = 0
            /\ exact' = TRUE
            /\ trace' = << >>
            /\ breakLog' = 0
            /\ UNCHANGED << err, resVars >>
       ELSE /\ Return("none")
            /\ UNCHANGED << until, chunks, task, emptyState, curVars, trace, breakLog >>
  /\ UNCHANGED << cmdVars, maxTweets, queryVars, loggedDeleted, dateVars, blocked, fatal, since, tweets, i, siteVars,
                  chunksProcessed, totalDeleted, logins, actions, failedAt, failedIn, progress >>

\* "from:%s since:%s until:%s": the instants are midnights, so the date that
\* Format(time.DateOnly) prints is the day itself
Query(u, s, e) == [from |-> u, since |-> s, until |-> e]

\* the days a query asks for: since: is inclusive, until: is exclusive
Window(q) == q.since..(q.until - 1)

\* chromedp.Run(ctx, t.searchTweets(since, until)), one task at a time; the
\* site answers the submitted query with some set of matching tweets
SearchStep ==
  /\ pc = "search" /\ ~blocked
  /\ actions' = actions + 1
  /\ \/ /\ task < Len(searchTweets)
        /\ task' = task + 1
        /\ trace' = Append(trace, searchTweets[task])
        /\ IF searchTweets[task].op = "SendKeys"
             THEN /\ \E r \in 0..maxTweets : remaining' = r
                  /\ curSearches' = curSearches + 1
                  /\ query' = Query(username, since, until)
                  /\ covered' = covered \cup Window(query')
             ELSE UNCHANGED << remaining, curSearches, queryVars >>
        /\ UNCHANGED << pc, err, resVars, failedAt, failedIn, blocked >>
     \/ /\ task = Len(searchTweets)
        /\ pc' = "probe"
        /\ task' = 1
        /\ trace' = Append(trace, searchTweets[task])
        /\ UNCHANGED << err, resVars, failedAt, failedIn, blocked, remaining, curSearches,
                        queryVars >>
     \/ /\ OnError(ErrSearch)
        /\ UNCHANGED << task, blocked, remaining, curSearches, trace, queryVars >>
     \/ /\ Waits(searchTweets[task])
        /\ Block
        /\ UNCHANGED << task, remaining, curSearches, trace, queryVars >>
  /\ UNCHANGED << cmdVars, maxTweets, logVars, dateVars, fatal, since, until, emptyState, tweets, i,
                  loaded, marker, chunks, chunksProcessed, totalDeleted,
                  curEnum, curDeleted, ended, k0, exact, logins, progress >>

\* the marker counts as found whatever the query matched
MarkerFoundAlways(n) == n >= 0

\* if len(nid) > 0 { emptyState = true }
MarkerFound(n) == n > 0

\* chromedp.Run(ctx, Sleep(3s), Query(emptyState, AtLeast(0), WaitFunc(...))):
\* after the sleep the view shows the marker or some of the tweets, or, when
\* the results are slow, nothing yet; the query completes in one check
ProbeStep ==
  /\ pc = "probe"
  /\ actions' = actions + 1
  /\ \/ /\ probe[task].op = "Sleep"
        /\ task' = 2
        /\ IF remaining = 0
             THEN /\ marker' \in BOOLEAN
                  /\ loaded' = 0
             ELSE /\ marker' = FALSE
                  /\ \E l \in 1..remaining : loaded' = l
        /\ trace' = Append(trace, probe[task])
        /\ UNCHANGED << pc, err, resVars, failedAt, failedIn, emptyState >>
     \/ /\ probe[task].op = "Query"
        /\ emptyState' = MarkerFound(IF marker THEN 1 ELSE 0)
        /\ pc' = "check"
        /\ task' = 0
        /\ trace' = Append(trace, probe[task])
        /\ UNCHANGED << err, resVars, failedAt, failedIn, marker, loaded >>
     \/ /\ OnError(ErrProbe)
        /\ UNCHANGED << task, emptyState, marker, loaded, trace >>
  /\ UNCHANGED << cmdVars, maxTweets, queryVars, logVars, dateVars, blocked, fatal, since, until, tweets, i,
                  remaining, chunks, chunksProcessed, totalDeleted, curVars,
                  logins, progress >>

\* the test of the probe's outcome is inverted
SkipChunkInverted(e) == ~e

\* if emptyState { ...; continue }
SkipChunk(e) == e

\* the probe's outcome decides: Empty skips to the next window, otherwise the
\* deletion loop starts with i := 1
CheckEmpty ==
  /\ pc = "check"
  /\ chunks' = SetOutcome(chunks, IF emptyState THEN "Empty" ELSE "HasResults")
  /\ k0' = loaded
  /\ IF SkipChunk(emptyState)
       THEN /\ chunksProcessed' = chunksProcessed + 1
            /\ since' = until
            /\ pc' = "for"
            /\ i' = i
       ELSE /\ pc' = "nodes"
            /\ i' = 1
            /\ UNCHANGED << chunksProcessed, since >>
  /\ UNCHANGED << cmdVars, maxTweets, trace, queryVars, logVars, dateVars, task, blocked, err, fatal, until, emptyState,
                  tweets, resVars, siteVars, totalDeleted, curSearches, curEnum,
                  curDeleted, ended, exact, logins, actions, failedAt, failedIn, progress >>

\* the enumeration also returns when nothing is listed
NodesReadyEmpty(n) == n >= 0

\* chromedp.Nodes without AtLeast(0): at least one node must match
NodesReady(n) == n >= 1

\* chromedp.Run(ctx, chromedp.Nodes("article[data-testid=tweet]", &tweets)):
\* returns once at least one tweet is listed
Nodes ==
  /\ pc = "nodes" /\ ~blocked
  /\ actions' = actions + 1
  /\ \/ /\ NodesReady(loaded)
        /\ tweets' = loaded
        /\ curEnum' = curEnum + 1
        /\ pc' = "delete"
        /\ task' = 1
        /\ UNCHANGED << err, resVars, failedAt, failedIn, blocked >>
     \/ /\ OnError(ErrNodes)
        /\ UNCHANGED << task, blocked, tweets, curEnum >>
     \/ /\ loaded = 0
        /\ Block
        /\ UNCHANGED << task, tweets, curEnum >>
  /\ UNCHANGED << cmdVars, maxTweets, trace, queryVars, logVars, dateVars, fatal, since, until, emptyState, i, siteVars,
                  chunks, chunksProcessed, totalDeleted, curSearches, curDeleted,
                  ended, k0, exact, logins, progress >>

\* chromedp.Run(ctx, t.deleteTweet()), one task at a time; the click on the
\* confirmation removes the first listed tweet, and the site may list more
DeleteStep ==
  /\ pc = "delete" /\ ~blocked
  /\ actions' = actions + 1
  /\ \/ /\ task < Len(deleteTweet)
        /\ task' = task + 1
        /\ UNCHANGED << pc, err, resVars, failedAt, failedIn, blocked, remaining, loaded,
                        curDeleted, totalDeleted, exact >>
     \/ /\ task = Len(deleteTweet)
        /\ pc' = "tail"
        /\ task' = 0
        /\ remaining' = remaining - 1
        /\ \E l \in (loaded - 1)..(remaining - 1) :
             /\ loaded' = l
             /\ exact' = (exact /\ l = loaded - 1)
        /\ curDeleted' = curDeleted + 1
        /\ totalDeleted' = totalDeleted + 1
        /\ UNCHANGED << err, resVars, failedAt, failedIn, blocked >>
     \/ /\ OnError(ErrDelete)
        /\ UNCHANGED << task, blocked, remaining, loaded, curDeleted, totalDeleted, exact >>
     \/ /\ Waits(deleteTweet[task])
        /\ Block
        /\ UNCHANGED << task, remaining, loaded, curDeleted, totalDeleted, exact >>
  /\ UNCHANGED << cmdVars, maxTweets, trace, queryVars, logVars, dateVars, fatal, since, until, emptyState, tweets, i,
                  marker, chunks, chunksProcessed, curSearches, curEnum, ended, k0,
                  logins, progress >>

\* the loop is left when no tweet was listed
LastTweetNone(n) == n = 0

\* the loop is left one tweet early
LastTweetEarly(n) == n <= 2

\* len(tweets) == 1
LastTweet(n) == n = 1

\* the message comes one deletion late
LogsProgressLate(n) == n % ProgressEvery = 1

\* if i%10 == 0
LogsProgress(n) == n % ProgressEvery = 0

\* the count logged at the break misses the last deletion
BreakCountShort(n) == n - 1

\* zap.Int("tweetsDeleted", i)
BreakCount(n) == n

\* if i%10 == 0 { log }; if len(tweets) == 1 { break }; i++
LoopTail ==
  /\ pc = "tail"
  /\ progress' = (IF LogsProgress(i) THEN progress + 1 ELSE progress)
  /\ ended' = (tweets = 1)
  /\ IF LastTweet(tweets)
       THEN /\ chunksProcessed' = chunksProcessed + 1
            /\ breakLog' = BreakCount(i)
            /\ loggedDeleted' = loggedDeleted + BreakCount(i)
            /\ since' = until
            /\ pc' = "for"
            /\ i' = i
       ELSE /\ i' = i + 1
            /\ pc' = "nodes"
            /\ UNCHANGED << chunksProcessed, since, logVars >>
  /\ UNCHANGED << cmdVars, maxTweets, trace, queryVars, dateVars, task, blocked, err, fatal, until, emptyState,
                  tweets, resVars, siteVars, chunks, totalDeleted, curSearches,
                  curEnum, curDeleted, k0, exact, logins, actions, failedAt, failedIn >>

Next ==
  \/ Main
  \/ RunStart
  \/ LoginStep
  \/ For
  \/ SearchStep
  \/ ProbeStep
  \/ CheckEmpty
  \/ Nodes
  \/ DeleteStep
  \/ LoopTail

Spec == Init /\ [][Next]_vars

\* the process keeps running: a step that can be taken is taken
FairSpec == Init /\ [][Next]_vars /\ WF_vars(Next)

\* runs long enough for the progress message
BurstSpec == InitBurst /\ [][Next]_vars

\* ------------------------------------------------------------ properties
Running == pc \notin {"main", "rejected"}

LastChunk == chunks[Len(chunks)]

Days(c) == c.until - c.since

CeilDiv(a, b) == (a + b - 1) \div b

\* the deletion loop of the current window has been left by its break
LoopLeft == pc = "for" /\ Len(chunks) > 0 /\ LastChunk.outcome = "HasResults"

\* C1: for a range [s, e) with e > s the windows produced so far start at s,
\* each begins where the one before ended, each is non-empty and at most
\* seven days long, and when Run has gone through the loop the last ends at e.
C1_Windows ==
  Running =>
    /\ startDate < endDate
    /\ Len(chunks) > 0 => chunks[1].since = startDate
    /\ \A j \in 1..(Len(chunks) - 1) : chunks[j].until = chunks[j + 1].since
    /\ \A j \in 1..Len(chunks) :
         /\ chunks[j].since < chunks[j].until
         /\ Days(chunks[j]) <= ChunkDays
         /\ chunks[j].until <= endDate
    /\ pc = "done" => (Len(chunks) > 0 /\ LastChunk.until = endDate)

C1_Witness ==
  /\ pc = "done"
  /\ Len(chunks) = 3
  /\ Days(LastChunk) < ChunkDays
  /\ LastChunk.until = endDate

\* C2: a range of d days yields ceil(d/7) windows, all but the last of exactly
\* seven days; a range of nine days yields [s, s+7) and [s+7, s+9).
C2_Count ==
  Running =>
    /\ Len(chunks) <= CeilDiv(endDate - startDate, ChunkDays)
    /\ \A j \in 1..(Len(chunks) - 1) : Days(chunks[j]) = ChunkDays
    /\ pc = "done" => Len(chunks) = CeilDiv(endDate - startDate, ChunkDays)
    /\ (pc = "done" /\ endDate - startDate = 9) =>
         /\ Len(chunks) = 2
         /\ chunks[1].since = startDate /\ chunks[1].until = startDate + 7
         /\ chunks[2].since = startDate + 7 /\ chunks[2].until = startDate + 9

C2_Witness ==
  /\ pc = "done"
  /\ endDate - startDate = 9
  /\ Len(chunks) = 2
  /\ Days(chunks[2]) = 2

\* C3: a range whose end is not after its start is rejected by main before
\* Run: nothing is acquired, no browser task is issued, no window is produced.
C3_Rejected ==
  (/\ pc # "main"
   /\ username # "" /\ password # ""
   /\ Parse(startFlag).ok /\ Parse(endFlag).ok
   /\ Parse(endFlag).t <= Parse(startFlag).t) =>
    /\ pc = "rejected"
    /\ fatal = "range"
    /\ acquired = {}
    /\ actions = 0 /\ logins = 0 /\ curSearches = 0 /\ curEnum = 0
    /\ totalDeleted = 0
    /\ chunks = << >>

C3_Witness ==
  /\ pc = "rejected"
  /\ fatal = "range"
  /\ Parse(endFlag).t = Parse(startFlag).t

\* C4: after an iteration whose enumeration listed exactly one tweet the loop
\* is left at once, after any other iteration it goes on, and once an
\* iteration that listed one tweet is over no tweet of that window is deleted.
C4_Termination ==
  [][ /\ (pc = "tail" /\ tweets = 1) => pc' = "for"
      /\ (pc = "tail" /\ tweets # 1) => (pc' = "nodes" /\ i' = i + 1)
      /\ (ended /\ Len(chunks') = Len(chunks)) => curDeleted' = curDeleted ]_vars

C4_Witness ==
  /\ pc = "for"
  /\ ended
  /\ tweets = 1
  /\ curDeleted >= 2

\* C5: when the deletion loop of a window has ended without error, no tweet
\* matching the window's query remains.
C5_Exhausted == LoopLeft => remaining = 0

\* C6: a window whose probe found the marker has no enumeration and no delete,
\* counts as processed, and control is at the loop head with since advanced;
\* a one-window run that was Empty ends with one window processed, none deleted.
C6_EmptySkips ==
  /\ (Len(chunks) > 0 /\ LastChunk.outcome = "Empty") =>
       /\ pc \in {"for", "done"}
       /\ curEnum = 0 /\ curDeleted = 0
       /\ chunksProcessed = Len(chunks)
       /\ since = until
       /\ err = "none"
  /\ (pc = "done" /\ Len(chunks) = 1 /\ chunks[1].outcome = "Empty") =>
       (chunksProcessed = 1 /\ totalDeleted = 0)

C6_Witness ==
  /\ pc = "done"
  /\ Len(chunks) = 1
  /\ chunks[1].outcome = "Empty"
  /\ chunksProcessed = 1
  /\ totalDeleted = 0

\* C7: when k tweets were listed after the search and every deletion shortened
\* the list by exactly one, the loop is left after exactly k deletions.
C7_ExactlyK == (LoopLeft /\ exact) => (k0 >= 1 /\ curDeleted = k0 /\ i = k0)

C7_Witness ==
  /\ LoopLeft
  /\ exact
  /\ k0 = 3
  /\ curDeleted = 3

\* C8: a login task whose element never appears leads to Run returning the
\* login error with no window, no search and no deletion.
C8_LoginTimeout ==
  (pc = "login" /\ blocked) ~>
    (/\ pc = "failed" /\ err = ErrLogin
     /\ chunks = << >> /\ chunksProcessed = 0 /\ totalDeleted = 0)

\* C9: every run comes to an end, with or without an error: as long as Run
\* has not returned, its next step can be taken (no wait lasts for ever).
C9_Terminates == (Running /\ pc \notin {"done", "failed"}) => ENABLED Next

\* C10: once a task has failed Run has returned its error and issues no
\* further task; no window is searched more than once.
C10_FirstErrorFatal ==
  /\ failedAt # NoDate =>
       /\ pc = "failed"
       /\ err # "none"
       /\ actions = failedAt
  /\ pc = "failed" => failedAt # NoDate
  /\ curSearches <= 1

C10_Witness ==
  /\ pc = "failed"
  /\ Len(chunks) >= 2
  /\ totalDeleted >= 1
  /\ actions = failedAt

\* the deletions of the current window that no logged count includes yet
Unlogged == IF ended /\ pc \in {"for", "done"} THEN 0 ELSE curDeleted

C12_Released == pc \in {"done", "failed"} => acquired \subseteq released

\* C13: the range includes its end date: when Run has gone through every
\* window, each day from the start date to the end date lies in the window
\* (since <= d < until) of some query it submitted.
C13_EndInclusive == pc = "done" => \A d \in startDate..endDate : d \in covered

Decided(c) == c.outcome \in {"Empty", "HasResults"}

\* C14: Run logs in once, before any window is searched; the windows come in
\* increasing date order, and a window is only begun when the one before it
\* was found Empty or had its deletion loop end.
C14_OneAtATime ==
  /\ [](/\ logins <= 1
        /\ (Len(chunks) > 0 \/ curSearches > 0) => logins = 1
        /\ \A j \in 1..(Len(chunks) - 1) :
             /\ chunks[j].since < chunks[j + 1].since
             /\ Decided(chunks[j])
        /\ pc \in {"search", "probe", "check"} => chunksProcessed = Len(chunks) - 1)
  /\ [][(Len(chunks') > Len(chunks) /\ Len(chunks) > 0) =>
          /\ chunksProcessed = Len(chunks)
          /\ \/ LastChunk.outcome = "Empty"
             \/ LastChunk.outcome = "HasResults" /\ ended]_vars

C14_Witness ==
  /\ pc = "search"
  /\ logins = 1
  /\ Len(chunks) = 3
  /\ chunks[1].outcome = "Empty"
  /\ chunks[2].outcome = "HasResults"
  /\ loggedDeleted >= 1
  /\ chunksProcessed = 2

\* C15: Run returns nil only when every day of the range [start, end) lies in
\* the window of a submitted query and every window was found Empty or had
\* its deletion loop end; no window is left unsearched.
C15_DoneComplete ==
  pc = "done" =>
    /\ err = "none"
    /\ \A d \in startDate..(endDate - 1) : d \in covered
    /\ Len(chunks) >= 1
    /\ \A j \in 1..Len(chunks) : Decided(chunks[j])
    /\ chunksProcessed = Len(chunks)
    /\ LastChunk.outcome = "HasResults" => ended

C15_Witness ==
  /\ pc = "done"
  /\ Len(chunks) = 3
  /\ chunks[1].outcome = "HasResults"
  /\ chunks[3].outcome = "Empty"
  /\ covered = startDate..(endDate - 1)

\* what a window's tasks wait for or open, in the order the claim gives:
\* navigate, search input, query, most-recent tab, pause, probe
SearchOrder == << "explore", "SearchInput", "SearchInput", "live", "3s", "emptyState" >>

\* C16: the tasks of a window complete in the order navigate, submit query,
\* switch to the most-recent tab, probe; the probe never waits, and the
\* outcome is Empty exactly when the marker was there when it was probed.
C16_SearchOrder ==
  /\ Len(trace) <= Len(SearchOrder)
  /\ \A j \in 1..Len(trace) : trace[j].sel = SearchOrder[j]
  /\ Len(trace) >= 3 => (trace[1].op = "Navigate" /\ trace[3].op = "SendKeys")
  /\ Len(trace) = 6 => trace[6].op = "Query"
  /\ pc = "probe" => ~blocked
  /\ pc = "check" => (Len(trace) = 6 /\ (emptyState <=> marker))
  /\ (Len(chunks) > 0 /\ Decided(LastChunk)) =>
       /\ Len(trace) = 6
       /\ LastChunk.outcome = "Empty" <=> marker

C16_Witness ==
  /\ pc = "check"
  /\ remaining = 0
  /\ ~marker
  /\ ~emptyState
  /\ Len(trace) = 6

\* the phase an error returned by Run names, "none" when it names none
PhaseNamed(e) ==
  IF e = ErrLogin THEN "authentication"
  ELSE IF e \in {ErrSearch, ErrProbe} THEN "search"
  ELSE IF e = ErrNodes THEN "deletion"
  ELSE "none"

\* the phase a failing step belongs to
PhaseOf(p) ==
  IF p = "login" THEN "authentication"
  ELSE IF p \in {"search", "probe"} THEN "search"
  ELSE "deletion"

\* C17: the error Run returns names the phase of the step that failed:
\* authentication for login, search for the search and the probe, deletion
\* for the deletion loop.
C17_PhaseNamed == pc = "failed" => PhaseNamed(err) = PhaseOf(failedIn)

InLoop == pc \in {"nodes", "delete", "tail"}

\* C18: the counter i starts at 1 in each window's deletion loop and follows
\* the deletions completed in the window without ever decreasing; the count
\* logged when the loop is left is that number; a progress message comes
\* exactly after the 10th, 20th, ... deletion of the window and does not
\* decide whether the loop goes on.
C18_Counter ==
  /\ [](/\ (pc = "nodes" /\ curEnum = 0) => (i = 1 /\ curDeleted = 0)
        /\ pc \in {"nodes", "delete"} => i = curDeleted + 1
        /\ pc = "tail" => i = curDeleted
        /\ LoopLeft => breakLog = curDeleted)
  /\ [][/\ (InLoop /\ Len(chunks') = Len(chunks)) => (i' >= i /\ curDeleted' >= curDeleted)
        /\ pc = "tail" =>
             /\ progress' = progress + 1 <=> (curDeleted > 0 /\ curDeleted % 10 = 0)
             /\ progress' \in {progress, progress + 1}
             /\ pc' = "for" <=> tweets = 1
        /\ pc # "tail" => progress' = progress]_vars

C18_Witness ==
  /\ pc = "nodes"
  /\ Len(chunks) = 2
  /\ i = 1
  /\ progress = 1
  /\ loggedDeleted = 10

\* C19: a delete is only issued after the enumeration of the same iteration
\* listed at least one tweet; a window that counts as HasResults with nothing
\* listed gets no delete.
C19_DeleteAfterEnum ==
  /\ pc \in {"delete", "tail"} => (tweets >= 1 /\ curEnum = i)
  /\ curDeleted <= curEnum
  /\ (Len(chunks) > 0 /\ LastChunk.outcome = "HasResults" /\ k0 = 0) =>
       (curDeleted = 0 /\ pc \notin {"delete", "tail"})

C19_Witness ==
  /\ pc = "delete"
  /\ task = 1
  /\ i = 2
  /\ curEnum = 2
  /\ tweets >= 1
  /\ curDeleted = 1

====
